---- MODULE Spec2Model ----
(***************************************************************************)
(* Model of ceph-mgr's ClusterState (src/src/mgr/ClusterState.cc): the     *)
(* versioned PGMap aggregate, the pending PGMap::Incremental, the set of   *)
(* existing pools, the ClusterState lock, and the four operations that     *)
(* touch them: ingest_pgstats, update_delta_stats, notify_osdmap and the   *)
(* dump_osd_network admin-socket command.                                  *)
(***************************************************************************)
EXTENDS Integers, Sequences, FiniteSets, TLC

(***************************************************************************)
(* Bounds of the model.                                                    *)
(***************************************************************************)
\* pg_map.version is capped: no commit starts once it reached MaxVersion.
MaxVersion == 3
\* number of MPGStats messages delivered in one behaviour
MaxReports == 2

\* the (reported_epoch, reported_seq) pairs the OSDs report: the epoch decides
\* between the first two, the sequence number between the last two
VersionPairs == {<<1, 2>>, <<2, 1>>, <<2, 2>>}
\* pool ids an OSDMap may hold
Pools == {1, 2}
\* placement groups <<pool, seed>>: one per pool
PGs == {<<1, 0>>, <<2, 0>>}
\* reporting OSDs
OSDs == {0, 1}
\* pg states carried by stats records
PgStates == {"active", "stale"}

Threads == {"stats", "osdmap", "tick", "asok"}
NoThread == "none"
NoMsg == [none |-> TRUE]

\* pg_t::pool()
pool(pgid) == pgid[1]

\* the empty map
EmptyMap == [x \in {} |-> x]

\* std::map operator[] assignment: m[k] = v
Put(m, k, v) == [x \in DOMAIN m \cup {k} |-> IF x = k THEN v ELSE m[x]]

\* every map from a subset of D into R
PartialMaps(D, R) == UNION {[S -> R] : S \in SUBSET D}

(***************************************************************************)
(* Heartbeat ping-time samples of one peer, as osd_stat_t keeps them and   *)
(* dump_osd_network reads them.                                            *)
(***************************************************************************)
Interfaces(bp, bl, fp, fl) ==
  [back_pingtime |-> bp, back_min |-> bp, back_max |-> bp, back_last |-> bl,
   front_pingtime |-> fp, front_min |-> fp, front_max |-> fp, front_last |-> fl]

\* a peer whose front interface was never exercised (front_last is 0)
FrontNeverSample == Interfaces(<<50, 40, 30>>, 7, <<20, 10, 5>>, 0)
\* a peer whose back_last is 0 while its front interface was exercised
BackNeverSample == Interfaces(<<30, 50, 10>>, 0, <<50, 20, 50>>, 9)

\* the osd_stat summaries the reporting OSDs send: hb_pingtime per peer
OsdStatA(o) == [hb_pingtime |-> Put(EmptyMap, 1 - o, FrontNeverSample)]
OsdStatB(o) == [hb_pingtime |-> Put(EmptyMap, 1 - o, BackNeverSample)]
\* OSD 0 has two summaries to send, OSD 1 one
OsdStats(o) == IF o = 0 THEN {OsdStatA(o), OsdStatB(o)} ELSE {OsdStatB(o)}

\* pg_stat_t as far as ClusterState inspects it
PgStat(e, s, st) == [reported_epoch |-> e, reported_seq |-> s, state |-> st]
\* the records an OSD reports
ReportedStats == {PgStat(vp[1], vp[2], "active") : vp \in VersionPairs}

\* MPGStats messages: the sender, its osd_stat summary and its pg_stat map
Messages ==
  UNION {{[from |-> o, osd_stat |-> os, pg_stat |-> ps] :
            os \in OsdStats(o), ps \in PartialMaps(PGs, ReportedStats)} : o \in OSDs}

(***************************************************************************)
(* State.                                                                  *)
(***************************************************************************)
VARIABLES
  pg_map,          \* PGMap: version, stamp, pg_stat, osd_stat
  pending_inc,     \* PGMap::Incremental: version, stamp, pg_stat_updates, osd_stat_updates
  existing_pools,  \* set<int64_t> existing_pools
  lock,            \* Mutex lock: the thread holding it, or NoThread
  pc,              \* position of each thread
  stats,           \* the MPGStats message ingest_pgstats is processing
  osd_map,         \* the OSDMap notify_osdmap is processing
  conf,            \* the configuration values dump_osd_network reads
  cmd,             \* the cmdmap of the admin-socket command being served
  ss,              \* the output stream of the admin-socket command being served
  now,             \* the clock ceph_clock_now() reads
  aborted,         \* a ceph_assert failed: the process is gone
  reports,         \* number of MPGStats messages delivered so far
  lock_checked,    \* threads whose running operation took or asserted the lock itself
  heard,           \* history: per PG, the newest version pair admitted by the pool filter
  commits,         \* history: number of commits performed
  dropped          \* history: PGs dropped by the pool filter since the last commit
                   \*          that were absent from pg_map when dropped

vars == <<pg_map, pending_inc, existing_pools, lock, pc, stats, osd_map, conf, cmd, ss,
          now, aborted,
          reports, lock_checked, heard, commits, dropped>>

\* PGMap::Incremental(): a freshly constructed, empty incremental
Incremental ==
  [version |-> 0, stamp |-> 0, pg_stat_updates |-> EmptyMap, osd_stat_updates |-> EmptyMap]

\* PGMap(): the aggregate after construction
PGMap == [version |-> 0, stamp |-> 0, pg_stat |-> EmptyMap, osd_stat |-> EmptyMap]

\* pg_stat_t::get_version_pair()
get_version_pair(st) == <<st.reported_epoch, st.reported_seq>>

\* std::pair operator> on version pairs: lexicographic
PairGT(a, b) == a[1] > b[1] \/ (a[1] = b[1] /\ a[2] > b[2])

\* the greater of two version pairs
PairMax(a, b) == IF PairGT(b, a) THEN b ELSE a

\* PGMap::Incremental::update_stat(osd, epoch, stat): the summary staged under
\* the reporter's id (the epoch it also records is read by nothing here)
update_stat(inc, from, osd_stat) ==
  [inc EXCEPT !.osd_stat_updates = Put(@, from, osd_stat)]

\* a filter that lets every pool through
PoolExistsAlways(pools, pgid) == TRUE

\* ingest_pgstats, line 84: the pool of pgid is in existing_pools
PoolExists(pools, pgid) == pool(pgid) \in pools

\* a staleness check that rejects nothing
HadMoreRecentNever(pm, pgid, pg_stats) == FALSE

\* a staleness check that also rejects an equal version pair
HadMoreRecentOrEqual(pm, pgid, pg_stats) ==
  /\ pgid \in DOMAIN pm.pg_stat
  /\ ~PairGT(get_version_pair(pg_stats), get_version_pair(pm.pg_stat[pgid]))

\* ingest_pgstats, lines 95-97: pg_map already holds more recent stats of pgid
HadMoreRecent(pm, pgid, pg_stats) ==
  /\ pgid \in DOMAIN pm.pg_stat
  /\ PairGT(get_version_pair(pm.pg_stat[pgid]), get_version_pair(pg_stats))

\* the entries of a message that ingest_pgstats stages (neither `continue` taken)
Admitted(pm, pools, m) ==
  {pgid \in DOMAIN m.pg_stat :
     /\ PoolExists(pools, pgid)
     /\ ~HadMoreRecent(pm, pgid, m.pg_stat[pgid])}

\* a staging that keeps what is staged for a PG when it is newer than the entry
ingest_pgstats_newest(pm, inc, pools, m) ==
  LET staged == update_stat(inc, m.from, m.osd_stat)
      cur == staged.pg_stat_updates
      adm == {pgid \in Admitted(pm, pools, m) :
                ~(/\ pgid \in DOMAIN cur
                  /\ PairGT(get_version_pair(cur[pgid]), get_version_pair(m.pg_stat[pgid])))}
  IN [staged EXCEPT !.pg_stat_updates =
        [pgid \in DOMAIN cur \cup adm |->
           IF pgid \in adm THEN m.pg_stat[pgid] ELSE cur[pgid]]]

\* a staging that records the reporter's summary only with an admitted entry
ingest_pgstats_if_admitted(pm, inc, pools, m) ==
  LET adm == Admitted(pm, pools, m)
      staged == IF adm = {} THEN inc ELSE update_stat(inc, m.from, m.osd_stat)
      cur == staged.pg_stat_updates
  IN [staged EXCEPT !.pg_stat_updates =
        [pgid \in DOMAIN cur \cup adm |->
           IF pgid \in adm THEN m.pg_stat[pgid] ELSE cur[pgid]]]

\* ingest_pgstats, lines 74-105: the pending incremental after the message
ingest_pgstats(pm, inc, pools, m) ==
  LET staged == update_stat(inc, m.from, m.osd_stat)
      cur == staged.pg_stat_updates
      adm == Admitted(pm, pools, m)
  IN [staged EXCEPT !.pg_stat_updates =
        [pgid \in DOMAIN cur \cup adm |->
           IF pgid \in adm THEN m.pg_stat[pgid] ELSE cur[pgid]]]

\* PGMap::apply_incremental: fold the incremental into the aggregate
apply_incremental(pm, inc) ==
  [version |-> inc.version,
   stamp |-> inc.stamp,
   pg_stat |-> [pgid \in DOMAIN pm.pg_stat \cup DOMAIN inc.pg_stat_updates |->
                  IF pgid \in DOMAIN inc.pg_stat_updates
                  THEN inc.pg_stat_updates[pgid] ELSE pm.pg_stat[pgid]],
   osd_stat |-> [o \in DOMAIN pm.osd_stat \cup DOMAIN inc.osd_stat_updates |->
                  IF o \in DOMAIN inc.osd_stat_updates
                  THEN inc.osd_stat_updates[o] ELSE pm.osd_stat[o]]]

\* the assertion apply_incremental opens with: inc.version == version + 1
ApplyPrecondition(pm, inc) == inc.version = pm.version + 1

\* a commit that numbers the incremental one too far
StampVersionSkip(pm, inc, t) == [inc EXCEPT !.stamp = t, !.version = pm.version + 2]

\* a commit that leaves the incremental's version as constructed
StampOnly(pm, inc, t) == [inc EXCEPT !.stamp = t]

\* update_delta_stats / notify_osdmap, lines 110-111 and 133-134
StampVersion(pm, inc, t) == [inc EXCEPT !.stamp = t, !.version = pm.version + 1]

\* update_delta_stats, lines 110-126, on an aggregate and its pending incremental:
\* the aggregate after the commit
update_delta_stats(pm, inc, t) == apply_incremental(pm, StampVersion(pm, inc, t))

\* PGMapUpdater::check_osd_map / check_down_pgs: stage a state change for the
\* PGs in S, on top of what is staged for them, else of what pg_map holds
MarkStale(pm, inc, S) ==
  LET cur == inc.pg_stat_updates
      base(pgid) == IF pgid \in DOMAIN cur THEN cur[pgid] ELSE pm.pg_stat[pgid]
  IN [inc EXCEPT !.pg_stat_updates =
        [pgid \in DOMAIN cur \cup S |->
           IF pgid \in S THEN [base(pgid) EXCEPT !.state = "stale"] ELSE cur[pgid]]]
check_osd_map(pm, inc, S) == MarkStale(pm, inc, S)
check_down_pgs(pm, inc, S) == MarkStale(pm, inc, S)

\* a rebuild that adds the OSDMap's pools to the ones already known
RebuildPoolsMerge(old, osd_map_pools) == old \cup osd_map_pools

\* notify_osdmap, lines 141-144: existing_pools rebuilt from the OSDMap's pools
RebuildPools(old, osd_map_pools) == osd_map_pools

(***************************************************************************)
(* dump_osd_network (asok_command, lines 212-329).                         *)
(***************************************************************************)
\* microseconds per second, line 220
MicrosPerSecond == 1000000

\* cmdmaps: "value" absent, an integer, or a value of another type
NoCmd == [given |-> "none", value |-> 0]
CmdValues == {-5, 0, 20, 50, 51}
Cmds == {[given |-> "absent", value |-> 0], [given |-> "bad", value |-> 0]}
          \cup {[given |-> "int", value |-> v] : v \in CmdValues}

\* the configuration: mon_warn_on_slow_ping_ratio is kept in hundredths
DefaultConf ==
  [mon_warn_on_slow_ping_time |-> 0, mon_warn_on_slow_ping_ratio |-> 5,
   osd_heartbeat_grace |-> 20]
Confs ==
  [mon_warn_on_slow_ping_time : {0, 40}, mon_warn_on_slow_ping_ratio : {0, 5},
   osd_heartbeat_grace : {-1, 20}]

\* lines 218-220: seconds of grace to microseconds at ratio (ratio in hundredths)
GraceThreshold(cf) ==
  (cf.osd_heartbeat_grace * MicrosPerSecond * cf.mon_warn_on_slow_ping_ratio) \div 100

\* a resolution that treats a supplied zero like an absent parameter
RawThresholdZeroDefaults(cf, c) ==
  IF c.given = "int" /\ c.value # 0
  THEN c.value
  ELSE IF cf.mon_warn_on_slow_ping_time = 0
       THEN GraceThreshold(cf)
       ELSE cf.mon_warn_on_slow_ping_time

\* lines 213-222: the value before clamping
RawThreshold(cf, c) ==
  IF c.given = "int"
  THEN c.value
  ELSE IF cf.mon_warn_on_slow_ping_time = 0
       THEN GraceThreshold(cf)
       ELSE cf.mon_warn_on_slow_ping_time

\* lines 223-224
Clamp(value) == IF value < 0 THEN 0 ELSE value

\* lines 213-224: the threshold dump_osd_network uses
Threshold(cf, c) == Clamp(RawThreshold(cf, c))

\* std::max over the three windows, lines 257-258 and 278-279
Max3(t) ==
  LET m == IF t[1] < t[2] THEN t[2] ELSE t[1]
  IN IF m < t[3] THEN t[3] ELSE m

\* mgr_ping_time_t::operator<, lines 236-250
Less(a, b) ==
  IF a.pingtime < b.pingtime THEN TRUE
  ELSE IF a.pingtime > b.pingtime THEN FALSE
  ELSE IF a.from < b.from THEN TRUE
  ELSE IF a.from > b.from THEN FALSE
  ELSE IF a.to < b.to THEN TRUE
  ELSE IF a.to > b.to THEN FALSE
  ELSE a.back

\* set<mgr_ping_time_t>::emplace: no insertion beside an equivalent element
emplace(sorted, item) ==
  IF \E x \in sorted : ~Less(x, item) /\ ~Less(item, x)
  THEN sorted
  ELSE sorted \cup {item}

\* a filter that leaves out the entries exactly at the threshold
KeepStrict(value, pingtime) == value = 0 \/ pingtime > value

\* lines 259 and 280: !value || item.pingtime >= value
Keep(value, pingtime) == value = 0 \/ pingtime >= value

\* lines 257-273: the item of the back interface
BackItem(from, to, j) ==
  [pingtime |-> Max3(j.back_pingtime), from |-> from, to |-> to, back |-> TRUE,
   times |-> j.back_pingtime, min |-> j.back_min, max |-> j.back_max,
   last |-> j.back_last]

\* lines 278-294: the item of the front interface
FrontItem(from, to, j) ==
  [pingtime |-> Max3(j.front_pingtime), from |-> from, to |-> to, back |-> FALSE,
   times |-> j.front_pingtime, min |-> j.front_min, max |-> j.front_max,
   last |-> j.front_last]

\* a skip decided by the back interface's last sample
FrontSkippedOnBackLast(j) == j.back_last = 0

\* line 276: the front interface of the pair is skipped
FrontSkipped(j) == j.front_last = 0

\* lines 256-295: one iteration of the inner loop
ScanPair(sorted, value, from, to, j) ==
  LET b == BackItem(from, to, j)
      f == FrontItem(from, to, j)
      s1 == IF Keep(value, b.pingtime) THEN emplace(sorted, b) ELSE sorted
  IN IF FrontSkipped(j) THEN s1
     ELSE IF Keep(value, f.pingtime) THEN emplace(s1, f) ELSE s1

\* the least key of a non-empty set of integers: std::map iterates in key order
MinKey(K) == CHOOSE k \in K : \A x \in K : k <= x

\* lines 255-296: the inner loop over the peers not yet visited
RECURSIVE ScanPeers(_, _, _, _, _)
ScanPeers(sorted, value, from, hb, peers) ==
  IF peers = {} THEN sorted
  ELSE LET to == MinKey(peers)
       IN ScanPeers(ScanPair(sorted, value, from, to, hb[to]), value, from, hb,
                    peers \ {to})

\* lines 254-297: the outer loop over the OSDs not yet visited
RECURSIVE ScanOsds(_, _, _, _)
ScanOsds(sorted, value, osd_stat, osds) ==
  IF osds = {} THEN sorted
  ELSE LET from == MinKey(osds)
           hb == osd_stat[from].hb_pingtime
       IN ScanOsds(ScanPeers(sorted, value, from, hb, DOMAIN hb), value, osd_stat,
                   osds \ {from})

\* lines 253-297: the set `sorted`
Sorted(osd_stat, value) == ScanOsds({}, value, osd_stat, DOMAIN osd_stat)

\* the least element of the set under operator<: where begin() points
First(S) == CHOOSE x \in S : \A y \in S \ {x} : Less(x, y)

\* the greatest element of the set under operator<: where rbegin() points
Last(S) == CHOOSE x \in S : \A y \in S \ {x} : Less(y, x)

\* line 303: boost::adaptors::reverse(sorted), as a sequence
RECURSIVE Reversed(_)
Reversed(S) ==
  IF S = {} THEN <<>>
  ELSE LET m == Last(S) IN <<m>> \o Reversed(S \ {m})

\* lines 306-326: one "entry" section
Entry(sitem) ==
  [from_osd |-> sitem.from, to_osd |-> sitem.to,
   interface |-> IF sitem.back THEN "back" ELSE "front",
   average |-> sitem.times, min |-> sitem.min, max |-> sitem.max,
   last |-> sitem.last]

\* line 304: ceph_assert(!value || sitem.pingtime >= value)
EmitAssertion(value, sitem) == value = 0 \/ sitem.pingtime >= value

\* lines 300-329: the network_ping_times document
Dump(osd_stat, value) ==
  LET order == Reversed(Sorted(osd_stat, value))
  IN [threshold |-> value,
      entries |-> [i \in 1..Len(order) |-> Entry(order[i])]]

NoOutput == [none |-> TRUE]
\* ClusterSocketHook::call, lines 180-183: e.what() of the caught bad_cmd_get
BadCmdGet == [error |-> "bad_cmd_get"]

(***************************************************************************)
(* The threads and their steps.                                            *)
(***************************************************************************)
NoOsdMap == [none |-> TRUE]
\* the OSDMaps delivered: their pool ids
OsdMaps == {[pools |-> P] : P \in SUBSET Pools}

NoPair == <<0, 0>>

Init ==
  /\ pg_map = PGMap
  /\ pending_inc = Incremental
  /\ existing_pools = {}
  /\ lock = NoThread
  /\ pc = [t \in Threads |-> "idle"]
  /\ stats = NoMsg
  /\ osd_map = NoOsdMap
  /\ conf = DefaultConf
  /\ cmd = NoCmd
  /\ ss = NoOutput
  /\ now = 0
  /\ aborted = FALSE
  /\ reports = 0
  /\ lock_checked = {}
  /\ heard = [pgid \in PGs |-> NoPair]
  /\ commits = 0
  /\ dropped = {}

\* a lock that never blocks
CanLockAlways(t) == TRUE

\* Mutex::Locker / std::lock_guard constructor: block until the lock is free
CanLock(t) == lock = NoThread

\* ---- the thread delivering MPGStats -------------------------------------
\* ingest_pgstats, line 72
IngestLock ==
  /\ ~aborted
  /\ pc["stats"] = "idle"
  /\ reports < MaxReports
  /\ CanLock("stats")
  /\ \E m \in Messages : stats' = m
  /\ lock' = "stats"
  /\ lock_checked' = lock_checked \cup {"stats"}
  /\ pc' = [pc EXCEPT !["stats"] = "ingest"]
  /\ reports' = reports + 1
  /\ UNCHANGED <<pg_map, pending_inc, existing_pools, osd_map, conf, cmd, ss, now,
                 aborted, heard, commits, dropped>>

\* an ingest that also writes the reporter's summary straight into pg_map
IngestBodyWriteThrough ==
  /\ ~aborted
  /\ pc["stats"] = "ingest"
  /\ pending_inc' = ingest_pgstats(pg_map, pending_inc, existing_pools, stats)
  /\ pg_map' = [pg_map EXCEPT !.osd_stat = Put(@, stats.from, stats.osd_stat)]
  /\ heard' = [pgid \in PGs |->
                 IF pgid \in DOMAIN stats.pg_stat /\ pool(pgid) \in existing_pools
                 THEN PairMax(heard[pgid], get_version_pair(stats.pg_stat[pgid]))
                 ELSE heard[pgid]]
  /\ dropped' = dropped \cup
                  {pgid \in DOMAIN stats.pg_stat :
                     pool(pgid) \notin existing_pools /\ pgid \notin DOMAIN pg_map.pg_stat}
  /\ stats' = NoMsg
  /\ lock' = NoThread
  /\ lock_checked' = lock_checked \ {"stats"}
  /\ pc' = [pc EXCEPT !["stats"] = "idle"]
  /\ UNCHANGED <<existing_pools, osd_map, conf, cmd, ss, now, aborted, reports, commits>>

\* ingest_pgstats, lines 74-106: the loop over the message, then the unlock
IngestBody ==
  /\ ~aborted
  /\ pc["stats"] = "ingest"
  /\ pending_inc' = ingest_pgstats(pg_map, pending_inc, existing_pools, stats)
  /\ heard' = [pgid \in PGs |->
                 IF pgid \in DOMAIN stats.pg_stat /\ pool(pgid) \in existing_pools
                 THEN PairMax(heard[pgid], get_version_pair(stats.pg_stat[pgid]))
                 ELSE heard[pgid]]
  /\ dropped' = dropped \cup
                  {pgid \in DOMAIN stats.pg_stat :
                     pool(pgid) \notin existing_pools /\ pgid \notin DOMAIN pg_map.pg_stat}
  /\ stats' = NoMsg
  /\ lock' = NoThread
  /\ lock_checked' = lock_checked \ {"stats"}
  /\ pc' = [pc EXCEPT !["stats"] = "idle"]
  /\ UNCHANGED <<pg_map, existing_pools, osd_map, conf, cmd, ss, now, aborted,
                 reports, commits>>

\* ---- the thread driving periodic commits --------------------------------
\* the caller of update_delta_stats takes the lock
TickLock ==
  /\ ~aborted
  /\ pc["tick"] = "idle"
  /\ pg_map.version < MaxVersion
  /\ CanLock("tick")
  /\ lock' = "tick"
  /\ pc' = [pc EXCEPT !["tick"] = "update_called"]
  /\ UNCHANGED <<pg_map, pending_inc, existing_pools, stats, osd_map, conf, cmd, ss,
                 now, aborted, reports, lock_checked, heard, commits, dropped>>

\* update_delta_stats, lines 110-111
UpdateStamp ==
  /\ ~aborted
  /\ pc["tick"] = "update_called"
  /\ now' = now + 1
  /\ pending_inc' = StampVersion(pg_map, pending_inc, now')
  /\ pc' = [pc EXCEPT !["tick"] = "update_stamped"]
  /\ UNCHANGED <<pg_map, existing_pools, lock, stats, osd_map, conf, cmd, ss,
                 aborted, reports, lock_checked, heard, commits, dropped>>

\* a commit that keeps the applied incremental as the pending one
CommitKeepsPending(inc) ==
  /\ commits' = commits + 1
  /\ dropped' = {}
  /\ IF ApplyPrecondition(pg_map, inc)
     THEN /\ pg_map' = apply_incremental(pg_map, inc)
          /\ pending_inc' = [inc EXCEPT !.version = 0]
          /\ aborted' = FALSE
     ELSE /\ aborted' = TRUE
          /\ pg_map' = pg_map
          /\ pending_inc' = inc

\* a commit whose fresh pending_inc is numbered for the commit after it
CommitNumbersNext(inc) ==
  /\ commits' = commits + 1
  /\ dropped' = {}
  /\ IF ApplyPrecondition(pg_map, inc)
     THEN /\ pg_map' = apply_incremental(pg_map, inc)
          /\ pending_inc' = [Incremental EXCEPT !.version = inc.version + 1]
          /\ aborted' = FALSE
     ELSE /\ aborted' = TRUE
          /\ pg_map' = pg_map
          /\ pending_inc' = inc

\* lines 125-126 and 163-164: apply_incremental, then a fresh pending_inc
Commit(inc) ==
  /\ commits' = commits + 1
  /\ dropped' = {}
  /\ IF ApplyPrecondition(pg_map, inc)
     THEN /\ pg_map' = apply_incremental(pg_map, inc)
          /\ pending_inc' = Incremental
          /\ aborted' = FALSE
     ELSE /\ aborted' = TRUE
          /\ pg_map' = pg_map
          /\ pending_inc' = inc

\* update_delta_stats, lines 125-126
UpdateApply ==
  /\ ~aborted
  /\ pc["tick"] = "update_stamped"
  /\ Commit(pending_inc)
  /\ pc' = [pc EXCEPT !["tick"] = "update_done"]
  /\ UNCHANGED <<existing_pools, lock, stats, osd_map, conf, cmd, ss, now,
                 reports, lock_checked, heard>>

\* the caller of update_delta_stats releases the lock
TickUnlock ==
  /\ ~aborted
  /\ pc["tick"] = "update_done"
  /\ lock' = NoThread
  /\ pc' = [pc EXCEPT !["tick"] = "idle"]
  /\ UNCHANGED <<pg_map, pending_inc, existing_pools, stats, osd_map, conf, cmd, ss,
                 now, aborted, reports, lock_checked, heard, commits, dropped>>

\* ---- the thread delivering OSDMaps --------------------------------------
\* the caller of notify_osdmap takes the lock
NotifyLock ==
  /\ ~aborted
  /\ pc["osdmap"] = "idle"
  /\ pg_map.version < MaxVersion
  /\ CanLock("osdmap")
  /\ \E m \in OsdMaps : osd_map' = m
  /\ lock' = "osdmap"
  /\ pc' = [pc EXCEPT !["osdmap"] = "notify_called"]
  /\ UNCHANGED <<pg_map, pending_inc, existing_pools, stats, conf, cmd, ss, now,
                 aborted, reports, lock_checked, heard, commits, dropped>>

\* notify_osdmap, line 131: assert(lock.is_locked_by_me())
is_locked_by_me(t) == lock = t

\* notify_osdmap, lines 131-144
NotifyRebuild ==
  /\ ~aborted
  /\ pc["osdmap"] = "notify_called"
  /\ IF is_locked_by_me("osdmap")
     THEN /\ now' = now + 1
          /\ \E S \in SUBSET (DOMAIN pg_map.pg_stat) :
               pending_inc' =
                 check_osd_map(pg_map, StampVersion(pg_map, pending_inc, now'), S)
          /\ existing_pools' = RebuildPools(existing_pools, osd_map.pools)
          /\ lock_checked' = lock_checked \cup {"osdmap"}
          /\ pc' = [pc EXCEPT !["osdmap"] = "notify_rebuilt"]
          /\ aborted' = FALSE
     ELSE /\ aborted' = TRUE
          /\ UNCHANGED <<now, pending_inc, existing_pools, lock_checked, pc>>
  /\ UNCHANGED <<pg_map, lock, stats, osd_map, conf, cmd, ss, reports, heard,
                 commits, dropped>>

\* notify_osdmap, lines 148-164
NotifyApply ==
  /\ ~aborted
  /\ pc["osdmap"] = "notify_rebuilt"
  /\ \E S \in SUBSET (DOMAIN pg_map.pg_stat) :
       Commit(check_down_pgs(pg_map, pending_inc, S))
  /\ lock_checked' = lock_checked \ {"osdmap"}
  /\ pc' = [pc EXCEPT !["osdmap"] = "notify_done"]
  /\ UNCHANGED <<existing_pools, lock, stats, osd_map, conf, cmd, ss, now, reports,
                 heard>>

\* the caller of notify_osdmap releases the lock
NotifyUnlock ==
  /\ ~aborted
  /\ pc["osdmap"] = "notify_done"
  /\ lock' = NoThread
  /\ osd_map' = NoOsdMap
  /\ pc' = [pc EXCEPT !["osdmap"] = "idle"]
  /\ UNCHANGED <<pg_map, pending_inc, existing_pools, stats, conf, cmd, ss, now,
                 aborted, reports, lock_checked, heard, commits, dropped>>

\* ---- the admin-socket thread --------------------------------------------
\* asok_command, line 210
AsokLock(C) ==
  /\ ~aborted
  /\ pc["asok"] = "idle"
  /\ CanLock("asok")
  /\ \E c \in C : cmd' = c
  /\ lock' = "asok"
  /\ lock_checked' = lock_checked \cup {"asok"}
  /\ pc' = [pc EXCEPT !["asok"] = "asok_locked"]
  /\ UNCHANGED <<pg_map, pending_inc, existing_pools, stats, osd_map, conf, ss, now,
                 aborted, reports, heard, commits, dropped>>

\* asok_command, lines 212-329: the threshold, the set `sorted`, the document
AsokDump ==
  /\ ~aborted
  /\ pc["asok"] = "asok_locked"
  /\ cmd.given # "bad"
  /\ LET value == Threshold(conf, cmd)
         sorted == Sorted(pg_map.osd_stat, value)
     IN IF \A sitem \in sorted : EmitAssertion(value, sitem)
        THEN /\ ss' = Dump(pg_map.osd_stat, value)
             /\ aborted' = FALSE
        ELSE /\ ss' = ss
             /\ aborted' = TRUE
  /\ pc' = [pc EXCEPT !["asok"] = "asok_dumped"]
  /\ UNCHANGED <<pg_map, pending_inc, existing_pools, lock, stats, osd_map, conf, cmd,
                 now, reports, lock_checked, heard, commits, dropped>>

\* an exception path that leaves the lock held
AsokThrowKeepsLock ==
  /\ ~aborted
  /\ pc["asok"] = "asok_locked"
  /\ cmd.given = "bad"
  /\ ss' = BadCmdGet
  /\ pc' = [pc EXCEPT !["asok"] = "asok_caught"]
  /\ UNCHANGED <<pg_map, pending_inc, existing_pools, lock, stats, osd_map, conf, cmd,
                 now, aborted, reports, lock_checked, heard, commits, dropped>>

\* asok_command, line 215: cmd_getval throws bad_cmd_get; the lock_guard unlocks
\* while the stack unwinds and ClusterSocketHook::call (lines 180-183) catches
AsokThrow ==
  /\ ~aborted
  /\ pc["asok"] = "asok_locked"
  /\ cmd.given = "bad"
  /\ ss' = BadCmdGet
  /\ lock' = NoThread
  /\ lock_checked' = lock_checked \ {"asok"}
  /\ pc' = [pc EXCEPT !["asok"] = "asok_caught"]
  /\ UNCHANGED <<pg_map, pending_inc, existing_pools, stats, osd_map, conf, cmd, now,
                 aborted, reports, heard, commits, dropped>>

\* asok_command, lines 333-336: flush and return, the lock_guard unlocks;
\* ClusterSocketHook::call, lines 184-185, hands the output to its caller
AsokReturn ==
  /\ ~aborted
  /\ pc["asok"] = "asok_dumped"
  /\ lock' = NoThread
  /\ lock_checked' = lock_checked \ {"asok"}
  /\ cmd' = NoCmd
  /\ ss' = NoOutput
  /\ pc' = [pc EXCEPT !["asok"] = "idle"]
  /\ UNCHANGED <<pg_map, pending_inc, existing_pools, stats, osd_map, conf,
                 now, aborted, reports, heard, commits, dropped>>

\* ClusterSocketHook::call, lines 184-185, after the catch
HookReturn ==
  /\ ~aborted
  /\ pc["asok"] = "asok_caught"
  /\ cmd' = NoCmd
  /\ ss' = NoOutput
  /\ pc' = [pc EXCEPT !["asok"] = "idle"]
  /\ UNCHANGED <<pg_map, pending_inc, existing_pools, lock, stats, osd_map, conf, now,
                 aborted, reports, lock_checked, heard, commits, dropped>>

\* the cmdmaps served while the other threads run
MainCmds ==
  {[given |-> "absent", value |-> 0], [given |-> "int", value |-> 0]}

Next ==
  \/ IngestLock \/ IngestBody
  \/ TickLock \/ UpdateStamp \/ UpdateApply \/ TickUnlock
  \/ NotifyLock \/ NotifyRebuild \/ NotifyApply \/ NotifyUnlock
  \/ AsokLock(MainCmds) \/ AsokDump \/ AsokReturn

Spec == Init /\ [][Next]_vars

(***************************************************************************)
(* The admin-socket command alone, over aggregates of any content: the     *)
(* heartbeat samples, the configuration and the cmdmap are drawn from       *)
(* sets, the other threads are idle.                                       *)
(***************************************************************************)
\* the averages an interface may hold: the greatest window is the first, the
\* second or the third
BackTimes == {<<20, 10, 5>>, <<5, 20, 10>>, <<5, 10, 50>>}
FrontTimes == {<<20, 10, 5>>, <<5, 10, 50>>}
LastTimes == {0, 9}
PeerSamples ==
  {Interfaces(bp, 9, fp, fl) : bp \in BackTimes, fp \in FrontTimes, fl \in LastTimes}
    \cup {FrontNeverSample, BackNeverSample}

\* osd.0 pings osd.1 and osd.2, osd.1 pings osd.0
OsdStatMaps ==
  {[o \in {0, 1} |->
      [hb_pingtime |-> IF o = 0 THEN [p \in {1, 2} |-> IF p = 1 THEN a ELSE b]
                                ELSE [p \in {0} |-> c]]] :
     a \in PeerSamples, b \in PeerSamples, c \in PeerSamples}

InitAsok ==
  /\ pg_map \in {[PGMap EXCEPT !.osd_stat = m] : m \in OsdStatMaps}
  /\ pending_inc = Incremental
  /\ existing_pools = {}
  /\ lock = NoThread
  /\ pc = [t \in Threads |-> "idle"]
  /\ stats = NoMsg
  /\ osd_map = NoOsdMap
  /\ conf \in Confs
  /\ cmd = NoCmd
  /\ ss = NoOutput
  /\ now = 0
  /\ aborted = FALSE
  /\ reports = 0
  /\ lock_checked = {}
  /\ heard = [pgid \in PGs |-> NoPair]
  /\ commits = 0
  /\ dropped = {}

NextAsok ==
  \/ AsokLock(Cmds) \/ AsokDump \/ AsokThrow \/ AsokReturn \/ HookReturn

SpecAsok == InitAsok /\ [][NextAsok]_vars

(***************************************************************************)
(* Properties.                                                             *)
(***************************************************************************)
\* "greater" on version pairs: by epoch, then by sequence number
Newer(a, b) == a[1] > b[1] \/ (a[1] = b[1] /\ a[2] > b[2])

NoStat == [none |-> TRUE]
\* what a map holds for a key, NoStat when it holds nothing
At(m, k) == IF k \in DOMAIN m THEN m[k] ELSE NoStat

\* the steps of the operations, by the position of their thread
IngestStep == pc["stats"] = "ingest" /\ pc'["stats"] = "idle"
UpdateCommitStep == pc["tick"] = "update_stamped" /\ pc'["tick"] = "update_done"
NotifyCommitStep == pc["osdmap"] = "notify_rebuilt" /\ pc'["osdmap"] = "notify_done"
CommitStep == UpdateCommitStep \/ NotifyCommitStep

\* C1: once update_delta_stats has committed, every PG that was reported while
\* its pool existed holds the newest version pair reported for it, whatever
\* the order of the reports.
C1_NewestPairWins ==
  (pc["tick"] = "update_done" /\ ~aborted) =>
    \A pgid \in PGs :
      heard[pgid] # NoPair =>
        /\ pgid \in DOMAIN pg_map.pg_stat
        /\ get_version_pair(pg_map.pg_stat[pgid]) = heard[pgid]

\* C2: pg_map.version equals the number of commits performed; a step leaves it
\* alone or adds exactly one, and it adds one exactly when the step is the
\* commit of update_delta_stats or of notify_osdmap.
C2_MonotonicVersion ==
  [][/\ pg_map.version = commits
     /\ pg_map.version' = commits'
     /\ pg_map.version' \in {pg_map.version, pg_map.version + 1}
     /\ (pg_map.version' = pg_map.version + 1) <=> CommitStep]_vars

\* C2 witness: a commit of notify_osdmap on top of an earlier commit
C2_Witness == pg_map.version >= 2 /\ pc["osdmap"] = "notify_done"

\* a message of one entry
OneEntry(o, pgid, st) ==
  [from |-> o, osd_stat |-> OsdStatB(o), pg_stat |-> Put(EmptyMap, pgid, st)]

\* pg_stat[pgid] after ingesting m1, then m2, then committing
IngestIngestCommit(m1, m2, pgid) ==
  LET i1 == ingest_pgstats(pg_map, pending_inc, existing_pools, m1)
      i2 == ingest_pgstats(pg_map, i1, existing_pools, m2)
  IN At(update_delta_stats(pg_map, i2, now + 1).pg_stat, pgid)

\* pg_stat[pgid] after ingesting m1, committing, ingesting m2, committing
IngestCommitIngestCommit(m1, m2, pgid) ==
  LET i1 == ingest_pgstats(pg_map, pending_inc, existing_pools, m1)
      p1 == update_delta_stats(pg_map, i1, now + 1)
      i2 == ingest_pgstats(p1, Incremental, existing_pools, m2)
  IN At(update_delta_stats(p1, i2, now + 2).pg_stat, pgid)

\* C3: from any state between operations, two reports on the same PG with
\* different version pairs leave the same committed entry in either order of
\* arrival, with or without a commit between them.
C3_DeliveryOrderCommutes ==
  (lock = NoThread /\ ~aborted) =>
    \A pgid \in PGs : \A a \in ReportedStats : \A b \in ReportedStats :
      get_version_pair(a) # get_version_pair(b) =>
        LET A == OneEntry(0, pgid, a)
            B == OneEntry(1, pgid, b)
        IN /\ IngestIngestCommit(A, B, pgid) = IngestIngestCommit(B, A, pgid)
           /\ IngestCommitIngestCommit(A, B, pgid) = IngestCommitIngestCommit(B, A, pgid)

\* C4: ingest_pgstats leaves what is staged for a PG untouched when the PG's
\* pool is not in existing_pools, and a PG dropped that way while absent from
\* pg_map is still absent after the next commit.
C4_ExistenceFiltering ==
  [][/\ IngestStep =>
          \A pgid \in PGs :
            pool(pgid) \notin existing_pools =>
              At(pending_inc'.pg_stat_updates, pgid) = At(pending_inc.pg_stat_updates, pgid)
     /\ CommitStep => \A pgid \in dropped : pgid \notin DOMAIN pg_map'.pg_stat]_vars

\* C4 witness: an entry was dropped for its pool while another entry is staged
C4_Witness ==
  /\ dropped # {}
  /\ DOMAIN pending_inc.pg_stat_updates # {}
  /\ lock = NoThread

\* C5 as claimed: an entry whose pool exists is left unstaged whenever pg_map
\* holds a version pair greater than or equal to the entry's.
C5_DropsEqualPair ==
  [][IngestStep =>
       \A pgid \in DOMAIN stats.pg_stat :
         (/\ pool(pgid) \in existing_pools
          /\ pgid \in DOMAIN pg_map.pg_stat
          /\ ~Newer(get_version_pair(stats.pg_stat[pgid]),
                    get_version_pair(pg_map.pg_stat[pgid])))
         => At(pending_inc'.pg_stat_updates, pgid) = At(pending_inc.pg_stat_updates, pgid)]_vars

\* C5 as amended: an entry whose pool exists is left unstaged exactly when
\* pg_map holds a strictly greater version pair for its PG; with an equal or
\* smaller pair in pg_map, or none, the entry is staged.
C5_DropsOnlyStrictlyOlder ==
  [][IngestStep =>
       \A pgid \in DOMAIN stats.pg_stat :
         pool(pgid) \in existing_pools =>
           IF /\ pgid \in DOMAIN pg_map.pg_stat
              /\ Newer(get_version_pair(pg_map.pg_stat[pgid]),
                       get_version_pair(stats.pg_stat[pgid]))
           THEN At(pending_inc'.pg_stat_updates, pgid) = At(pending_inc.pg_stat_updates, pgid)
           ELSE At(pending_inc'.pg_stat_updates, pgid) = stats.pg_stat[pgid]]_vars

\* C5 witness: between operations an entry is staged whose version pair equals
\* the one pg_map holds
C5_Witness ==
  /\ lock = NoThread
  /\ \E pgid \in DOMAIN pending_inc.pg_stat_updates :
       /\ pgid \in DOMAIN pg_map.pg_stat
       /\ get_version_pair(pending_inc.pg_stat_updates[pgid])
            = get_version_pair(pg_map.pg_stat[pgid])

\* a thread is inside one of the four operations
InOperation(t) ==
  pc[t] \in {"ingest", "update_stamped", "notify_rebuilt", "asok_locked", "asok_dumped"}

\* C6 as claimed: a thread inside an operation holds the lock, and the
\* operation itself took the lock or asserted that it is held.
C6_EveryOperationLocks ==
  \A t \in Threads : InOperation(t) => (lock = t /\ t \in lock_checked)

\* C6 as amended: a thread inside an operation holds the lock, and no two
\* threads are inside operations at once.
C6_MutualExclusion ==
  \A t \in Threads :
    InOperation(t) => (lock = t /\ \A u \in Threads \ {t} : ~InOperation(u))

\* C6 witness: update_delta_stats is between its two halves, with updates staged
C6_Witness ==
  /\ pc["tick"] = "update_stamped"
  /\ lock = "tick"
  /\ DOMAIN pending_inc.pg_stat_updates # {}

\* C7: whenever pending_inc is about to be applied its version is
\* pg_map.version + 1, and no assertion has ever failed.
C7_CommitPrecondition ==
  /\ ~aborted
  /\ (pc["tick"] = "update_stamped" \/ pc["osdmap"] = "notify_rebuilt")
       => pending_inc.version = pg_map.version + 1

\* C7 witness: notify_osdmap is about to apply, after an earlier commit, while
\* the stats thread has delivered reports
C7_Witness ==
  /\ pc["osdmap"] = "notify_rebuilt"
  /\ pg_map.version >= 1
  /\ reports >= 1
  /\ DOMAIN pending_inc.osd_stat_updates # {}

\* the rank key of an emitted entry: the greatest of its three averages
RankKey(e) ==
  CHOOSE m \in {e.average[1], e.average[2], e.average[3]} :
    \A x \in {e.average[1], e.average[2], e.average[3]} : m >= x

\* dump_osd_network has written its document
Dumped == pc["asok"] = "asok_dumped" /\ ~aborted

\* the order the claim gives: rank key descending, then from ascending, then
\* to ascending, then back before front
ClaimedBefore(a, b) ==
  \/ RankKey(a) > RankKey(b)
  \/ /\ RankKey(a) = RankKey(b)
     /\ \/ a.from_osd < b.from_osd
        \/ /\ a.from_osd = b.from_osd
           /\ \/ a.to_osd < b.to_osd
              \/ /\ a.to_osd = b.to_osd
                 /\ a.interface = "back"
                 /\ b.interface = "front"

\* the order of the reversed set: every key descending, front before back
ReversedBefore(a, b) ==
  \/ RankKey(a) > RankKey(b)
  \/ /\ RankKey(a) = RankKey(b)
     /\ \/ a.from_osd > b.from_osd
        \/ /\ a.from_osd = b.from_osd
           /\ \/ a.to_osd > b.to_osd
              \/ /\ a.to_osd = b.to_osd
                 /\ a.interface = "front"
                 /\ b.interface = "back"

\* C8 as claimed: the entries are emitted by rank key descending, and entries
\* of equal rank key by from-OSD ascending, then to-OSD ascending, then back
\* before front.
C8_TiesAscending ==
  Dumped =>
    \A i \in 1..Len(ss.entries) : \A j \in 1..Len(ss.entries) :
      i < j => ClaimedBefore(ss.entries[i], ss.entries[j])

\* C8 as amended: the entries are emitted by rank key descending, and entries
\* of equal rank key by from-OSD descending, then to-OSD descending, then front
\* before back.
C8_TiesDescending ==
  Dumped =>
    \A i \in 1..Len(ss.entries) : \A j \in 1..Len(ss.entries) :
      i < j => ReversedBefore(ss.entries[i], ss.entries[j])

\* C8 witness: a document with equal rank keys on one pair's two interfaces,
\* on two peers of one OSD and on two OSDs
C8_Witness ==
  /\ Dumped
  /\ \E i \in 1..Len(ss.entries) : \E j \in 1..Len(ss.entries) :
       \E k \in 1..Len(ss.entries) : \E l \in 1..Len(ss.entries) :
         /\ RankKey(ss.entries[i]) = RankKey(ss.entries[j])
         /\ RankKey(ss.entries[j]) = RankKey(ss.entries[k])
         /\ RankKey(ss.entries[k]) = RankKey(ss.entries[l])
         /\ ss.entries[i].from_osd # ss.entries[j].from_osd
         /\ ss.entries[j].from_osd = ss.entries[k].from_osd
         /\ ss.entries[j].to_osd # ss.entries[k].to_osd
         /\ ss.entries[k].from_osd = ss.entries[l].from_osd
         /\ ss.entries[k].to_osd = ss.entries[l].to_osd
         /\ ss.entries[k].interface # ss.entries[l].interface

\* the threshold the configuration gives
ConfiguredThreshold ==
  IF conf.mon_warn_on_slow_ping_time # 0
  THEN conf.mon_warn_on_slow_ping_time
  ELSE (conf.osd_heartbeat_grace * 1000000 * conf.mon_warn_on_slow_ping_ratio) \div 100

NonNegative(v) == IF v < 0 THEN 0 ELSE v

\* C9 as claimed: the threshold reported is the supplied value when it is
\* positive, the configured one when the supplied value is zero or absent,
\* and 0 when the result is negative.
C9_ZeroMeansDefault ==
  Dumped =>
    ss.threshold =
      NonNegative(IF cmd.given = "int" /\ cmd.value # 0
                  THEN cmd.value ELSE ConfiguredThreshold)

\* C9 as amended: the threshold reported is the supplied value whenever the
\* parameter is present, zero included, the configured one only when the
\* parameter is absent, and 0 when the result is negative.
C9_AbsentMeansDefault ==
  Dumped =>
    ss.threshold =
      NonNegative(IF cmd.given = "int" THEN cmd.value ELSE ConfiguredThreshold)

\* C9 witness: a supplied zero reported as threshold 0 although a warning
\* threshold is configured
C9_Witness ==
  /\ Dumped
  /\ cmd.given = "int"
  /\ cmd.value = 0
  /\ conf.mon_warn_on_slow_ping_time > 0
  /\ ss.threshold = 0

\* the (from, to, interface, rank key) of the eligible entries of pg_map.osd_stat
Eligible ==
  UNION {UNION {
      {<<o, p, "back", RankKey([average |-> pg_map.osd_stat[o].hb_pingtime[p].back_pingtime])>>}
        \cup
      (IF pg_map.osd_stat[o].hb_pingtime[p].front_last = 0 THEN {}
       ELSE {<<o, p, "front",
               RankKey([average |-> pg_map.osd_stat[o].hb_pingtime[p].front_pingtime])>>}) :
      p \in DOMAIN pg_map.osd_stat[o].hb_pingtime} :
    o \in DOMAIN pg_map.osd_stat}

\* the (from, to, interface, rank key) of the emitted entries
Emitted ==
  {<<ss.entries[i].from_osd, ss.entries[i].to_osd, ss.entries[i].interface,
     RankKey(ss.entries[i])>> : i \in 1..Len(ss.entries)}

\* C10: the emitted entries are exactly the eligible ones whose rank key is at
\* least the threshold, all of them when the threshold is 0, each emitted
\* once; the assertion at emission never fails.
C10_ThresholdInclusive ==
  /\ ~aborted
  /\ Dumped =>
       /\ Emitted = {e \in Eligible : ss.threshold = 0 \/ e[4] >= ss.threshold}
       /\ Cardinality(Emitted) = Len(ss.entries)

\* C10 witness: a positive threshold with an entry exactly at it emitted and
\* an eligible entry below it left out
C10_Witness ==
  /\ Dumped
  /\ ss.threshold > 0
  /\ \E e \in Emitted : e[4] = ss.threshold
  /\ \E e \in Eligible : e[4] < ss.threshold

\* the entries of the document about the pair (o, p) on one interface
EntriesOf(o, p, interface) ==
  {i \in 1..Len(ss.entries) :
     /\ ss.entries[i].from_osd = o
     /\ ss.entries[i].to_osd = p
     /\ ss.entries[i].interface = interface}

\* the hb_pingtime sample pg_map holds for the pair (o, p)
Sample(o, p) == pg_map.osd_stat[o].hb_pingtime[p]

\* C11: for every (from, to) pair the document holds no "front" entry when
\* front_last is 0, whatever the front averages and the threshold, and holds
\* the "back" entry whenever the back rank key passes the threshold, whatever
\* back_last; a pair with back averages [50,40,30], front averages [20,10,5]
\* and front_last 0 has, at threshold 0, exactly one entry: back, rank key 50.
C11_FrontSuppressedBackNot ==
  Dumped =>
    \A o \in DOMAIN pg_map.osd_stat : \A p \in DOMAIN pg_map.osd_stat[o].hb_pingtime :
      LET j == Sample(o, p)
          passes(t) == ss.threshold = 0 \/ RankKey([average |-> t]) >= ss.threshold
      IN /\ j.front_last = 0 => EntriesOf(o, p, "front") = {}
         /\ j.front_last # 0 =>
              Cardinality(EntriesOf(o, p, "front")) =
                (IF passes(j.front_pingtime) THEN 1 ELSE 0)
         /\ Cardinality(EntriesOf(o, p, "back")) =
              (IF passes(j.back_pingtime) THEN 1 ELSE 0)
         /\ (j = FrontNeverSample /\ ss.threshold = 0) =>
              /\ Cardinality(EntriesOf(o, p, "back")) = 1
              /\ EntriesOf(o, p, "front") = {}
              /\ \A i \in EntriesOf(o, p, "back") : RankKey(ss.entries[i]) = 50

\* C11 witness: one document, at a positive threshold, that leaves out a front
\* interface whose rank key passes the threshold because front_last is 0, and
\* holds a back entry whose back_last is 0
C11_Witness ==
  /\ Dumped
  /\ ss.threshold > 0
  /\ \E o \in DOMAIN pg_map.osd_stat : \E p \in DOMAIN pg_map.osd_stat[o].hb_pingtime :
       /\ Sample(o, p).front_last = 0
       /\ RankKey([average |-> Sample(o, p).front_pingtime]) >= ss.threshold
       /\ EntriesOf(o, p, "front") = {}
       /\ EntriesOf(o, p, "back") # {}
  /\ \E i \in 1..Len(ss.entries) :
       /\ ss.entries[i].interface = "back"
       /\ ss.entries[i].last = 0

\* C11 example: the pair of the example dumped at threshold 0
C11_ExampleWitness ==
  /\ Dumped
  /\ ss.threshold = 0
  /\ \E o \in DOMAIN pg_map.osd_stat : \E p \in DOMAIN pg_map.osd_stat[o].hb_pingtime :
       /\ Sample(o, p) = FrontNeverSample
       /\ Cardinality(EntriesOf(o, p, "back")) = 1

\* the steps of notify_osdmap after its caller took the lock
NotifyRebuildStep == pc["osdmap"] = "notify_called" /\ pc'["osdmap"] = "notify_rebuilt"
NotifyReturnStep == pc["osdmap"] = "notify_done" /\ pc'["osdmap"] = "idle"

\* nothing is staged in an incremental
NothingStaged(inc) == inc.pg_stat_updates = EmptyMap /\ inc.osd_stat_updates = EmptyMap

\* C12: from the call of notify_osdmap to its return the lock is held by the
\* calling thread and no other thread takes a step or is inside an operation;
\* the rebuild sets existing_pools to the OSDMap's pools and leaves pg_map
\* alone, the commit that follows adds exactly one to pg_map.version and
\* leaves nothing staged, and both still hold when the call returns.
C12_NotifyAtomic ==
  [][/\ pc["osdmap"] # "idle" =>
          /\ lock = "osdmap"
          /\ pc'["osdmap"] # pc["osdmap"]
          /\ \A t \in Threads \ {"osdmap"} : pc[t] = "idle" /\ pc'[t] = "idle"
     /\ NotifyRebuildStep =>
          /\ pg_map' = pg_map
          /\ existing_pools' = osd_map.pools
     /\ NotifyCommitStep =>
          /\ existing_pools = osd_map.pools
          /\ existing_pools' = existing_pools
          /\ pg_map'.version = pg_map.version + 1
          /\ NothingStaged(pending_inc')
     /\ NotifyReturnStep =>
          /\ NothingStaged(pending_inc)
          /\ existing_pools = osd_map.pools
          /\ UNCHANGED <<pg_map, pending_inc, existing_pools>>]_vars

\* C12 witness: between the rebuild and the commit an update is staged for a
\* PG whose pool the rebuild has just removed, while reports were delivered
C12_Witness ==
  /\ pc["osdmap"] = "notify_rebuilt"
  /\ reports >= 1
  /\ \E pgid \in DOMAIN pending_inc.pg_stat_updates : pool(pgid) \notin existing_pools

\* the entry of the message in flight for pgid passes both checks of ingest_pgstats
PassesBothChecks(pgid) ==
  /\ pgid \in DOMAIN stats.pg_stat
  /\ pool(pgid) \in existing_pools
  /\ ~(/\ pgid \in DOMAIN pg_map.pg_stat
        /\ Newer(get_version_pair(pg_map.pg_stat[pgid]),
                 get_version_pair(stats.pg_stat[pgid])))

UpdateStampStep == pc["tick"] = "update_called" /\ pc'["tick"] = "update_stamped"

\* C14 as claimed: whenever the lock is free, pending_inc.version is
\* pg_map.version + 1, the fresh pending_inc carrying it from its creation.
C14_TargetVersionAtCreation ==
  lock = NoThread => pending_inc.version = pg_map.version + 1

\* C14 as amended: whenever the lock is free, pending_inc.version is the 0 of
\* a default-constructed incremental, whatever pg_map.version is; each commit
\* assigns pg_map.version + 1 to it at its start, applies it with that
\* version, and leaves a fresh incremental of version 0 behind.
C14_VersionAssignedAtCommit ==
  [][/\ lock = NoThread => pending_inc.version = 0
     /\ (UpdateStampStep \/ NotifyRebuildStep) =>
          /\ pending_inc.version = 0
          /\ pending_inc'.version = pg_map.version + 1
     /\ CommitStep =>
          /\ pending_inc.version = pg_map.version + 1
          /\ pg_map'.version = pending_inc.version
          /\ pending_inc'.version = 0]_vars

\* C14 witness: after a commit and a later report, with the lock free, the
\* pending incremental holds updates and still has version 0
C14_Witness ==
  /\ lock = NoThread
  /\ pg_map.version >= 1
  /\ DOMAIN pending_inc.osd_stat_updates # {}
  /\ pending_inc.version = 0

\* no report was ingested since the last commit: every ingest_pgstats stages
\* the reporter's summary, and nothing else stages one
NoIngestSinceCommit == pending_inc.osd_stat_updates = EmptyMap

\* the commit changes nothing of the aggregate but its version and stamp
OnlyVersionAndStamp == pg_map'.pg_stat = pg_map.pg_stat /\ pg_map'.osd_stat = pg_map.osd_stat

\* the staged summaries are in pg_map after the step, and nothing is staged
StagedSummariesApplied ==
  /\ NothingStaged(pending_inc')
  /\ \A o \in DOMAIN pending_inc.osd_stat_updates :
       At(pg_map'.osd_stat, o) = pending_inc.osd_stat_updates[o]

\* C15 as claimed: a commit leaves nothing staged and puts every staged update
\* into pg_map, and any commit that follows another with no ingest between
\* them changes nothing but the version and the stamp.
C15_SecondCommitChangesNothing ==
  [][CommitStep =>
       /\ StagedSummariesApplied
       /\ (commits >= 1 /\ NoIngestSinceCommit) => OnlyVersionAndStamp]_vars

\* C15 as amended: a commit leaves nothing staged; the commit of
\* update_delta_stats puts every staged update into pg_map as staged and,
\* with no ingest since the last commit, changes nothing but the version and
\* the stamp; the commit of notify_osdmap puts every staged update into pg_map
\* with its version pair, the state being what the collaborators of that call
\* left, and with no ingest since the last commit changes nothing but the
\* version, the stamp and the states the collaborators staged in that call.
C15_AppliedOnce ==
  [][/\ CommitStep => StagedSummariesApplied
     /\ UpdateCommitStep =>
          /\ \A pgid \in DOMAIN pending_inc.pg_stat_updates :
               At(pg_map'.pg_stat, pgid) = pending_inc.pg_stat_updates[pgid]
          /\ NoIngestSinceCommit => OnlyVersionAndStamp
     /\ NotifyCommitStep =>
          /\ \A pgid \in DOMAIN pending_inc.pg_stat_updates :
               /\ pgid \in DOMAIN pg_map'.pg_stat
               /\ get_version_pair(pg_map'.pg_stat[pgid])
                    = get_version_pair(pending_inc.pg_stat_updates[pgid])
          /\ NoIngestSinceCommit =>
               /\ pg_map'.osd_stat = pg_map.osd_stat
               /\ DOMAIN pg_map'.pg_stat = DOMAIN pg_map.pg_stat
               /\ \A pgid \in DOMAIN pg_map.pg_stat :
                    \/ pg_map'.pg_stat[pgid] = pg_map.pg_stat[pgid]
                    \/ pg_map'.pg_stat[pgid] = [pg_map.pg_stat[pgid] EXCEPT !.state = "stale"]]_vars

\* C15 witness: notify_osdmap has committed a PG as stale that an earlier
\* commit put into pg_map, and nothing is staged
C15_Witness ==
  /\ pc["osdmap"] = "notify_done"
  /\ NothingStaged(pending_inc)
  /\ pg_map.osd_stat # EmptyMap
  /\ \E pgid \in DOMAIN pg_map.pg_stat : pg_map.pg_stat[pgid].state = "stale"

\* a step of the thread inside ingest_pgstats, from taking the lock on
IngestCallStep == pc'["stats"] # pc["stats"]

\* C16: no step of ingest_pgstats changes pg_map or existing_pools; pg_map
\* changes only in the commit of update_delta_stats or of notify_osdmap, so
\* what dump_osd_network reads stays the same from one commit to the next,
\* however many reports are ingested between them.
C16_IngestLeavesAggregate ==
  [][/\ IngestCallStep => (pg_map' = pg_map /\ existing_pools' = existing_pools)
     /\ pg_map' # pg_map => CommitStep]_vars

\* C16 witness: two reports were ingested, the lock is free, and what is
\* staged for a PG and for a reporter differs from what pg_map holds for them
C16_Witness ==
  /\ lock = NoThread
  /\ reports >= 2
  /\ \E pgid \in DOMAIN pending_inc.pg_stat_updates :
       /\ pgid \in DOMAIN pg_map.pg_stat
       /\ pg_map.pg_stat[pgid] # pending_inc.pg_stat_updates[pgid]
  /\ \E o \in DOMAIN pending_inc.osd_stat_updates :
       /\ o \in DOMAIN pg_map.osd_stat
       /\ pg_map.osd_stat[o] # pending_inc.osd_stat_updates[o]

\* C17: every ingest_pgstats stages the summary of its message under the
\* sender's id, whatever happens to the message's PG entries, and leaves the
\* summaries staged for other reporters alone; no other step changes a staged
\* summary before the commit, which puts each staged summary into pg_map: the
\* summary committed for a reporter is the one of its last report.
C17_SummaryAlwaysStaged ==
  [][/\ IngestStep =>
          \A o \in OSDs :
            At(pending_inc'.osd_stat_updates, o) =
              (IF o = stats.from THEN stats.osd_stat
               ELSE At(pending_inc.osd_stat_updates, o))
     /\ (~IngestStep /\ ~CommitStep) =>
          pending_inc'.osd_stat_updates = pending_inc.osd_stat_updates
     /\ CommitStep =>
          \A o \in OSDs :
            At(pg_map'.osd_stat, o) =
              (IF o \in DOMAIN pending_inc.osd_stat_updates
               THEN pending_inc.osd_stat_updates[o] ELSE At(pg_map.osd_stat, o))]_vars

\* C17 witness: two reports were ingested, every PG entry was rejected, one
\* of them for its pool, and a summary is staged all the same
C17_Witness ==
  /\ lock = NoThread
  /\ reports >= 2
  /\ dropped # {}
  /\ pending_inc.pg_stat_updates = EmptyMap
  /\ pending_inc.osd_stat_updates # EmptyMap

\* C18: the rebuild in notify_osdmap makes existing_pools exactly the pools of
\* the OSDMap it was called with, and so it is when the call returns, pools
\* of earlier OSDMaps that this one lacks being gone; no step other than the
\* rebuild changes existing_pools.
C18_FilterRebuilt ==
  [][/\ NotifyRebuildStep => existing_pools' = osd_map.pools
     /\ NotifyReturnStep =>
          /\ existing_pools = osd_map.pools
          /\ existing_pools' = existing_pools
     /\ existing_pools' # existing_pools => NotifyRebuildStep]_vars

\* C18 witness: notify_osdmap is about to return, and pg_map holds a PG whose
\* pool was in existing_pools when it was reported and is in it no more
C18_Witness ==
  /\ pc["osdmap"] = "notify_done"
  /\ existing_pools = osd_map.pools
  /\ \E pgid \in DOMAIN pg_map.pg_stat : pool(pgid) \notin existing_pools

\* asok_command is over: it returned, or its exception was caught
AsokFinished == pc["asok"] \in {"idle", "asok_caught"}

\* C19: no step of the admin-socket thread changes pg_map, pending_inc or
\* existing_pools, and once asok_command is over, by its return or by a
\* bad_cmd_get that ClusterSocketHook::call caught, that thread does not hold
\* the lock: the lock is free for the next operation.
C19_ReadOnlyAndUnlocked ==
  [][/\ pc'["asok"] # pc["asok"] => UNCHANGED <<pg_map, pending_inc, existing_pools>>
     /\ AsokFinished => lock = NoThread
     /\ AsokFinished' => lock' = NoThread
     /\ ~AsokFinished => lock = "asok"]_vars

\* C19 witness: cmd_getval has thrown, the hook has caught the exception and
\* written its text, and the lock is free
C19_Witness ==
  /\ pc["asok"] = "asok_caught"
  /\ cmd.given = "bad"
  /\ ss = BadCmdGet
  /\ lock = NoThread

\* C20: whatever is staged for a PG that pg_map holds carries a version pair
\* not smaller than the one in pg_map, and across every commit, of
\* update_delta_stats or of notify_osdmap, each PG of pg_map stays in it with
\* a version pair not smaller than before.
C20_CommittedNeverRegresses ==
  [][/\ \A pgid \in DOMAIN pending_inc.pg_stat_updates \cap DOMAIN pg_map.pg_stat :
          ~Newer(get_version_pair(pg_map.pg_stat[pgid]),
                 get_version_pair(pending_inc.pg_stat_updates[pgid]))
     /\ CommitStep =>
          \A pgid \in DOMAIN pg_map.pg_stat :
            /\ pgid \in DOMAIN pg_map'.pg_stat
            /\ ~Newer(get_version_pair(pg_map.pg_stat[pgid]),
                      get_version_pair(pg_map'.pg_stat[pgid]))]_vars

\* C20 witness: notify_osdmap is about to commit; for one PG of pg_map an
\* entry of strictly greater version pair is staged, and check_osd_map has set
\* the state of that staged entry to stale
C20_Witness ==
  /\ pc["osdmap"] = "notify_rebuilt"
  /\ \E pgid \in DOMAIN pending_inc.pg_stat_updates \cap DOMAIN pg_map.pg_stat :
       /\ Newer(get_version_pair(pending_inc.pg_stat_updates[pgid]),
                get_version_pair(pg_map.pg_stat[pgid]))
       /\ pending_inc.pg_stat_updates[pgid].state = "stale"

====
